---- MODULE Spec2Model ----
(***************************************************************************)
(* Frame orchestration core of the foxy engine (GTLugo/ookami).            *)
(*                                                                         *)
(* The driver is Framework::next_state (crates/foxy/src/core/              *)
(* engine_loop.rs): one arm per PREVIOUS stage.  An arm that blocks (the   *)
(* barrier wait, the mailbox send_and_wait, the thread join) is split at   *)
(* its suspension points; dpc is the driver's position inside the arm.     *)
(* The render-side loop, the mailbox, the thread wrapper and the clock      *)
(* live in files that are not part of the sources at hand; they are        *)
(* modelled from sections 4.2 - 4.5 of the specification.                  *)
(***************************************************************************)
EXTENDS Integers, Sequences, FiniteSets, TLC

(* ---------------- bounds of the model ---------------- *)

\* frames the window source may open before it has to report "closed"
MaxFrames == 2
\* largest wall-clock delta (in clock units) one Time::update may observe
MaxDelta == 5
\* calls of next() the caller may make after the first None
MaxNone == 2
\* Time::new(128.0, 1024): the tick cap 1024, scaled down to the model's units
BailThreshold == 2
\* messages each endpoint may send when the mailbox pair is exercised on its own
MaxMsgs == 3
\* shaders one ShaderStore may construct
MaxShaders == 3
\* shader modules the device may create
MaxModules == 2

(* ---------------- program constants ---------------- *)

\* Barrier::new(2)
\* the mutant Barrier::new(1)
BarrierPartiesOffByOne == 2 - 1
BarrierParties == 2

\* length of one fixed step (1/128 s) in clock units
TickTime == 2

\* Time::new(128.0, 1024) unscaled, in units of 1/128000 s: one step of
\* 1/128 s is 1000 units, the cap is 1024 ticks
ScenarioTickTime == 1000
ScenarioBailThreshold == 1024

\* a wall delta of 0.031 s in units of 1/128000 s
ScenarioDelta == 31 * 128

(* ---------------- value sets ---------------- *)

\* StageDiscriminants
Stages == {"Initialize", "Start", "BeginFrame", "EarlyUpdate", "FixedUpdate",
           "Update", "EndFrame", "Exiting", "ExitLoop"}

\* WindowMessage values the window source can deliver (None = the initial value)
WindowMessages == {"m1", "m2"}

\* GameLoopMessage
RenderDataMsg == "RenderData"
ExitMsg == "Exit"

\* RenderLoopMessage values: the reply to a request carries the submit outcome
RenderResponses == {"ok", "err"}

\* shader stage kinds, and the ShaderStore field that caches each
StageKinds == {"Vertex", "Fragment", "Compute", "Geometry", "Mesh"}
StoreFields == {"vertex_shaders", "fragment_shaders", "compute_shaders",
                "geometry_shaders", "mesh_shaders"}
Paths == {"a.hlsl", "b.hlsl"}
\* where the words of a Source came from
Sources == {"given", "reread", "default"}
BuildAttempts == {"First", "Second", "Last"}

VARIABLES
  current_stage,      \* Framework.current_stage
  current_message,    \* Framework.current_message
  render_response,    \* payload of the last Stage::EndFrame
  yielded,            \* last value returned by Iterator::next ("nothing" before the first call)
  nyield,             \* number of Some(..) items returned so far
  none_returns,       \* number of None returned so far
  dpc,                \* driver position inside next_state
  lag_time,           \* Time: accumulated time
  tick_count,         \* Time: ticks consumed since the last update
  b_count,            \* Barrier: parties currently waiting
  b_gen,              \* Barrier: generation
  d_gen,              \* generation the driver saw when it arrived
  r_gen,              \* generation the render thread saw when it arrived
  g2r,                \* mailbox, game -> render
  r2g,                \* mailbox, render -> game
  rpc,                \* render thread position
  joined,             \* EngineThread::join has returned
  thread_runs,        \* calls of EngineThread::run
  frames,             \* events delivered by the window source
  d_barrier_calls,    \* Barrier::wait calls of the driver
  r_barrier_calls,    \* Barrier::wait calls of the render thread
  exit_sends,         \* send(Exit) calls of the driver
  renderdata_sends,   \* send_and_wait(RenderData) calls of the driver
  replies_sent,       \* replies the render thread has sent
  last_reply,         \* the reply the render thread sent last
  submit_errors,      \* failed Renderer submits
  fixed_yields,       \* FixedUpdate items yielded
  exit_cause,         \* why Exiting was yielded: "none", "window", "mailbox"
  tick_time,          \* Time: length of one fixed step
  bail_threshold,     \* Time: maximum ticks per frame
  g_sent_log,         \* messages the game endpoint has sent, in order
  r_recv_log,         \* messages the render endpoint has received, in order
  reply_log,          \* replies the render endpoint has sent, in order
  recv_log,           \* replies the game endpoint has received, in order
  frame_lag0,         \* accumulator before the last Time::update
  frame_delta,        \* wall delta of the last Time::update
  frame_fixed,        \* FixedUpdate items yielded since the last Time::update
  time_updates,       \* calls of Time::update
  shader_store,       \* ShaderStore: the five maps, path -> handle
  shader_handles,     \* handles made by Handle::new so far
  shader_constructions, \* calls of Shader::new per (stage kind, path)
  shader_first,       \* handle the first get of a (stage kind, path) returned (0: none yet)
  shader_last,        \* the last get: its stage kind, path and returned handle
  build_kind,         \* Shader::new: the stage kind being built ("none" when idle)
  build_path,         \* Shader::new: the path being built
  build_attempt,      \* build_shader_module: the attempt in progress ("none" when not building)
  build_source,       \* build_shader_module: the source of the attempt in progress
  build_trace,        \* attempts made for the current shader, in order
  build_result,       \* what build_shader_module returned: "none", "Ok", "Err"; "panicked" after expect
  build_module,       \* the source whose words made the returned module
  modules_created     \* successful create_shader_module calls

timeVars == <<lag_time, tick_count>>
barrierVars == <<b_count, b_gen, d_gen, r_gen>>
mailVars == <<g2r, r2g>>
driverVars == <<current_stage, current_message, render_response, yielded, nyield,
                none_returns, dpc, joined, thread_runs, frames, fixed_yields, exit_cause>>
countVars == <<d_barrier_calls, r_barrier_calls, exit_sends, renderdata_sends,
               replies_sent, last_reply, submit_errors>>
clockCfg == <<tick_time, bail_threshold>>
logVars == <<g_sent_log, r_recv_log, reply_log, recv_log>>
frameVars == <<frame_lag0, frame_delta, frame_fixed, time_updates>>
storeVars == <<shader_store, shader_handles, shader_constructions, shader_first, shader_last>>
buildVars == <<build_kind, build_path, build_attempt, build_source, build_trace,
               build_result, build_module, modules_created>>
assetVars == <<storeVars, buildVars>>
vars == <<current_stage, current_message, render_response, yielded, nyield,
          none_returns, dpc, lag_time, tick_count, b_count, b_gen, d_gen, r_gen,
          g2r, r2g, rpc, joined, thread_runs, frames, d_barrier_calls,
          r_barrier_calls, exit_sends, renderdata_sends, replies_sent, last_reply,
          submit_errors, fixed_yields, exit_cause, tick_time, bail_threshold,
          g_sent_log, r_recv_log, reply_log, recv_log, frame_lag0, frame_delta,
          frame_fixed, time_updates, shader_store, shader_handles,
          shader_constructions, shader_first, shader_last, build_kind, build_path,
          build_attempt, build_source, build_trace, build_result, build_module,
          modules_created>>

(* ---------------- ShaderStore::new, and no shader being built ---------------- *)

\* a partial map from paths to handles: HashMap<PathBuf, Handle<Shader<Kind>>>
EmptyMap == [p \in {} |-> 0]

StoreNew ==
  /\ shader_store = [f \in StoreFields |-> EmptyMap]
  /\ shader_handles = 0
  /\ shader_constructions = [k \in StageKinds, p \in Paths |-> 0]
  /\ shader_first = [k \in StageKinds, p \in Paths |-> 0]
  /\ shader_last = [kind |-> "none", path |-> "none", handle |-> 0]

BuildIdle ==
  /\ build_kind = "none"
  /\ build_path = "none"
  /\ build_attempt = "none"
  /\ build_source = "none"
  /\ build_trace = <<>>
  /\ build_result = "none"
  /\ build_module = "none"
  /\ modules_created = 0

(* ---------------- Framework::new ---------------- *)

InitWith(step, cap) ==
  /\ current_stage = "Initialize"
  /\ current_message = "None"
  /\ render_response = "none"
  /\ yielded = "nothing"
  /\ nyield = 0
  /\ none_returns = 0
  /\ dpc = "idle"
  /\ lag_time = 0
  /\ tick_count = 0
  /\ b_count = 0
  /\ b_gen = 0
  /\ d_gen = 0
  /\ r_gen = 0
  /\ g2r = <<>>
  /\ r2g = <<>>
  /\ rpc = "unstarted"
  /\ joined = FALSE
  /\ thread_runs = 0
  /\ frames = 0
  /\ d_barrier_calls = 0
  /\ r_barrier_calls = 0
  /\ exit_sends = 0
  /\ renderdata_sends = 0
  /\ replies_sent = 0
  /\ last_reply = "none"
  /\ submit_errors = 0
  /\ fixed_yields = 0
  /\ exit_cause = "none"
  /\ tick_time = step
  /\ bail_threshold = cap
  /\ g_sent_log = <<>>
  /\ r_recv_log = <<>>
  /\ reply_log = <<>>
  /\ recv_log = <<>>
  /\ frame_lag0 = 0
  /\ frame_delta = 0
  /\ frame_fixed = 0
  /\ time_updates = 0
  /\ StoreNew
  /\ BuildIdle

\* Time::new with the clock scaled down to the model's units
Init == InitWith(TickTime, BailThreshold)

\* Time::new(128.0, 1024) as written, next to the scaled clock
ClockInit ==
  \E cfg \in {<<TickTime, BailThreshold>>, <<ScenarioTickTime, ScenarioBailThreshold>>} :
    InitWith(cfg[1], cfg[2])

(* ---------------- Time (fixed-timestep clock) ---------------- *)

\* Time::update: the elapsed wall time is added to the accumulator and the
\* per-frame tick count starts over
TimeUpdateLag(lag, delta) == lag + delta

\* Time::should_do_tick: a whole step is accumulated and the cap is not hit
ShouldDoTick(lag, ticks) == lag >= tick_time /\ ticks < bail_threshold

\* Time::tick: one step leaves the accumulator
TimeTickLag(lag) == lag - tick_time

\* the wall-clock deltas Time::update may observe (Instant::now is an input)
WallDeltas ==
  IF tick_time = ScenarioTickTime
    THEN {0, ScenarioTickTime - 1, ScenarioTickTime, 2 * ScenarioTickTime + 500, ScenarioDelta}
    ELSE 0..MaxDelta

(* ---------------- Barrier (std::sync::Barrier) ---------------- *)

\* Barrier::wait, arrival half: the last of the parties resets the count and
\* opens the next generation, any other party is counted and waits
BarrierCountAfterArrive == IF b_count + 1 >= BarrierParties THEN 0 ELSE b_count + 1
BarrierGenAfterArrive == IF b_count + 1 >= BarrierParties THEN b_gen + 1 ELSE b_gen

\* Barrier::wait, waiting half: a party leaves once the generation it arrived
\* in is over
DriverReleased == b_gen # d_gen
RenderReleased == b_gen # r_gen

(* ---------------- Mailbox ---------------- *)

\* the render-side endpoint is dropped with the RenderLoop value, i.e. when
\* the render thread's run has returned or unwound
RenderEndpointDropped == rpc \in {"done", "panicked"}

\* Mailbox::send: the message is queued behind those already in flight
MailSendFront(ch, m) == <<m>> \o ch
MailSend(ch, m) == Append(ch, m)

\* Mailbox receive: the oldest message in flight, and what stays in flight
MailFirst(ch) == Head(ch)
MailRest(ch) == Tail(ch)

\* the render thread has terminated, so join can return
RenderTerminated == rpc \in {"done", "panicked"}

(* ---------------- Framework::next_state ---------------- *)

\* self.current_stage = StageDiscriminants::from(&new_state); Some(new_state)
YieldKeepsStage(s) ==
  /\ current_stage' = current_stage
  /\ yielded' = s
  /\ nyield' = nyield + 1
  /\ fixed_yields' = IF s = "FixedUpdate" THEN fixed_yields + 1 ELSE fixed_yields
  /\ dpc' = "idle"

Yield(s) ==
  /\ current_stage' = s
  /\ yielded' = s
  /\ nyield' = nyield + 1
  /\ fixed_yields' = IF s = "FixedUpdate" THEN fixed_yields + 1 ELSE fixed_yields
  /\ dpc' = "idle"

\* Start / EndFrame arms: Some(message) => BeginFrame, None => Exiting
StageAfterPollAlwaysExits(got_message) == "Exiting"
StageAfterPoll(got_message) == IF got_message THEN "BeginFrame" ELSE "Exiting"

\* EarlyUpdate / FixedUpdate arms: should_do_tick => FixedUpdate, else Update
StageAfterTickCheckSkipsUpdate(do_tick) == IF do_tick THEN "FixedUpdate" ELSE "EndFrame"
StageAfterTickCheck(do_tick) == IF do_tick THEN "FixedUpdate" ELSE "Update"

\* Update arm: Ok(render_response) => EndFrame, Err(_) => Exiting
StageAfterMailboxIgnoresErr(ok) == "EndFrame"
StageAfterMailboxSwapped(ok) == IF ok THEN "Exiting" ELSE "EndFrame"
StageAfterMailbox(ok) == IF ok THEN "EndFrame" ELSE "Exiting"

\* Exiting arm: new_state = Stage::ExitLoop, which falls through to Some(new_state)
StageAfterExiting == "ExitLoop"

\* the mutant of the Initialize arm that leaves out self.render_thread.run(())
InitializeArmNoRun ==
  /\ dpc = "idle"
  /\ current_stage = "Initialize"
  /\ Yield("Start")
  /\ UNCHANGED <<current_message, render_response, none_returns, joined, frames, exit_cause,
                 thread_runs, rpc>>
  /\ UNCHANGED <<timeVars, barrierVars, mailVars, countVars>>
  /\ UNCHANGED <<assetVars, clockCfg, logVars, frameVars>>

\* StageDiscriminants::Initialize: render_thread.run(()); Stage::Start
InitializeArm ==
  /\ dpc = "idle"
  /\ current_stage = "Initialize"
  /\ rpc' = IF rpc = "unstarted" THEN "arrive" ELSE rpc
  /\ thread_runs' = thread_runs + 1
  /\ Yield("Start")
  /\ UNCHANGED <<current_message, render_response, none_returns, joined, frames, exit_cause>>
  /\ UNCHANGED <<timeVars, barrierVars, mailVars, countVars>>
  /\ UNCHANGED <<assetVars, clockCfg, logVars, frameVars>>

\* next_window_message and the if-let shared by the Start and EndFrame arms
PollWindowArmClearsOnNone(prev) ==
  /\ dpc = "idle"
  /\ current_stage = prev
  /\ \/ \E m \in WindowMessages :
          /\ frames < MaxFrames
          /\ current_message' = m
          /\ frames' = frames + 1
          /\ Yield(StageAfterPoll(TRUE))
          /\ UNCHANGED exit_cause
     \/ /\ Yield(StageAfterPoll(FALSE))
        /\ exit_cause' = "window"
        /\ current_message' = "None"
        /\ UNCHANGED frames
  /\ UNCHANGED <<render_response, none_returns, joined, thread_runs, rpc>>
  /\ UNCHANGED <<timeVars, barrierVars, mailVars, countVars>>
  /\ UNCHANGED <<assetVars, clockCfg, logVars, frameVars>>

PollWindowArm(prev) ==
  /\ dpc = "idle"
  /\ current_stage = prev
  /\ \/ \E m \in WindowMessages :
          /\ frames < MaxFrames
          /\ current_message' = m
          /\ frames' = frames + 1
          /\ Yield(StageAfterPoll(TRUE))
          /\ UNCHANGED exit_cause
     \/ /\ Yield(StageAfterPoll(FALSE))
        /\ exit_cause' = "window"
        /\ UNCHANGED <<current_message, frames>>
  /\ UNCHANGED <<render_response, none_returns, joined, thread_runs, rpc>>
  /\ UNCHANGED <<timeVars, barrierVars, mailVars, countVars>>
  /\ UNCHANGED <<assetVars, clockCfg, logVars, frameVars>>

\* StageDiscriminants::Start
StartArm == PollWindowArm("Start")

\* StageDiscriminants::EndFrame
EndFrameArm == PollWindowArm("EndFrame")

\* the mutant of the BeginFrame arm that leaves out self.sync_barrier.wait()
BeginFrameNoBarrier ==
  /\ dpc = "idle"
  /\ current_stage = "BeginFrame"
  /\ d_gen' = b_gen - 1
  /\ dpc' = "BeginFrameWait"
  /\ UNCHANGED <<current_stage, current_message, render_response, yielded, nyield,
                 none_returns, joined, thread_runs, frames, fixed_yields, exit_cause>>
  /\ UNCHANGED <<timeVars, mailVars, rpc, r_gen, b_count, b_gen, countVars>>
  /\ UNCHANGED <<assetVars, clockCfg, logVars, frameVars>>

\* StageDiscriminants::BeginFrame, up to the arrival in self.sync_barrier.wait()
BeginFrameArrive ==
  /\ dpc = "idle"
  /\ current_stage = "BeginFrame"
  /\ d_gen' = b_gen
  /\ b_count' = BarrierCountAfterArrive
  /\ b_gen' = BarrierGenAfterArrive
  /\ d_barrier_calls' = d_barrier_calls + 1
  /\ dpc' = "BeginFrameWait"
  /\ UNCHANGED <<current_stage, current_message, render_response, yielded, nyield,
                 none_returns, joined, thread_runs, frames, fixed_yields, exit_cause>>
  /\ UNCHANGED <<timeVars, mailVars, rpc, r_gen>>
  /\ UNCHANGED <<r_barrier_calls, exit_sends, renderdata_sends, replies_sent,
                 last_reply, submit_errors>>
  /\ UNCHANGED <<assetVars, clockCfg, logVars, frameVars>>

\* StageDiscriminants::BeginFrame, after the barrier: time.update(); Stage::EarlyUpdate
BeginFrameRelease ==
  /\ dpc = "BeginFrameWait"
  /\ DriverReleased
  /\ \E delta \in WallDeltas :
       /\ lag_time' = TimeUpdateLag(lag_time, delta)
       /\ frame_delta' = delta
  /\ tick_count' = 0
  /\ frame_lag0' = lag_time
  /\ frame_fixed' = 0
  /\ time_updates' = time_updates + 1
  /\ Yield("EarlyUpdate")
  /\ UNCHANGED <<current_message, render_response, none_returns, joined, thread_runs,
                 frames, exit_cause>>
  /\ UNCHANGED <<barrierVars, mailVars, countVars, rpc>>
  /\ UNCHANGED <<assetVars, clockCfg, logVars>>

\* the mutant of the EarlyUpdate and FixedUpdate arms that leaves out
\* self.foxy.time.tick(): the step is never consumed
TickArmNoConsume(prev) ==
  /\ dpc = "idle"
  /\ current_stage = prev
  /\ frame_fixed' = IF StageAfterTickCheck(ShouldDoTick(lag_time, tick_count)) = "FixedUpdate"
                      THEN frame_fixed + 1 ELSE frame_fixed
  /\ Yield(StageAfterTickCheck(ShouldDoTick(lag_time, tick_count)))
  /\ UNCHANGED <<current_message, render_response, none_returns, joined, thread_runs,
                 frames, exit_cause>>
  /\ UNCHANGED <<timeVars, barrierVars, mailVars, countVars, rpc>>
  /\ UNCHANGED <<assetVars, clockCfg, logVars, frame_lag0, frame_delta, time_updates>>

\* the if shared by the EarlyUpdate and FixedUpdate arms
TickArm(prev) ==
  /\ dpc = "idle"
  /\ current_stage = prev
  /\ IF ShouldDoTick(lag_time, tick_count)
       THEN /\ lag_time' = TimeTickLag(lag_time)
            /\ tick_count' = tick_count + 1
       ELSE UNCHANGED timeVars
  /\ frame_fixed' = IF StageAfterTickCheck(ShouldDoTick(lag_time, tick_count)) = "FixedUpdate"
                      THEN frame_fixed + 1 ELSE frame_fixed
  /\ Yield(StageAfterTickCheck(ShouldDoTick(lag_time, tick_count)))
  /\ UNCHANGED <<current_message, render_response, none_returns, joined, thread_runs,
                 frames, exit_cause>>
  /\ UNCHANGED <<barrierVars, mailVars, countVars, rpc>>
  /\ UNCHANGED <<assetVars, clockCfg, logVars, frame_lag0, frame_delta, time_updates>>

\* StageDiscriminants::EarlyUpdate
EarlyUpdateArm == TickArm("EarlyUpdate")

\* the mutant of the FixedUpdate arm that never ticks again: one fixed update
\* per frame at most
FixedUpdateArmSingleTick ==
  /\ dpc = "idle"
  /\ current_stage = "FixedUpdate"
  /\ Yield("Update")
  /\ UNCHANGED <<current_message, render_response, none_returns, joined, thread_runs,
                 frames, exit_cause>>
  /\ UNCHANGED <<timeVars, barrierVars, mailVars, countVars, rpc>>
  /\ UNCHANGED <<assetVars, clockCfg, logVars, frameVars>>

\* StageDiscriminants::FixedUpdate
FixedUpdateArm == TickArm("FixedUpdate")

\* the mutant of the Update arm that calls send instead of send_and_wait:
\* the request is queued and EndFrame is yielded without receiving the reply
UpdateSendNoWait ==
  /\ dpc = "idle"
  /\ current_stage = "Update"
  /\ renderdata_sends' = renderdata_sends + 1
  /\ g2r' = IF RenderEndpointDropped THEN g2r ELSE MailSend(g2r, RenderDataMsg)
  /\ g_sent_log' = IF RenderEndpointDropped THEN g_sent_log ELSE Append(g_sent_log, RenderDataMsg)
  /\ Yield(StageAfterMailbox(~RenderEndpointDropped))
  /\ exit_cause' = IF RenderEndpointDropped THEN "mailbox" ELSE exit_cause
  /\ UNCHANGED <<current_message, render_response, none_returns, joined, thread_runs, frames>>
  /\ UNCHANGED <<timeVars, barrierVars, r2g, rpc>>
  /\ UNCHANGED <<d_barrier_calls, r_barrier_calls, exit_sends, replies_sent,
                 last_reply, submit_errors>>
  /\ UNCHANGED <<assetVars, clockCfg, frameVars, r_recv_log, reply_log, recv_log>>

\* StageDiscriminants::Update, the send half of send_and_wait(RenderData): a
\* send to a dropped peer is the Err that yields Exiting
UpdateSend ==
  /\ dpc = "idle"
  /\ current_stage = "Update"
  /\ renderdata_sends' = renderdata_sends + 1
  /\ IF RenderEndpointDropped
       THEN /\ Yield(StageAfterMailbox(FALSE))
            /\ exit_cause' = IF StageAfterMailbox(FALSE) = "Exiting" THEN "mailbox" ELSE exit_cause
            /\ UNCHANGED <<g2r, g_sent_log>>
       ELSE /\ g2r' = MailSend(g2r, RenderDataMsg)
            /\ g_sent_log' = Append(g_sent_log, RenderDataMsg)
            /\ dpc' = "UpdateWait"
            /\ UNCHANGED <<current_stage, yielded, nyield, fixed_yields, exit_cause>>
  /\ UNCHANGED <<current_message, render_response, none_returns, joined, thread_runs, frames>>
  /\ UNCHANGED <<timeVars, barrierVars, r2g, rpc>>
  /\ UNCHANGED <<d_barrier_calls, r_barrier_calls, exit_sends, replies_sent,
                 last_reply, submit_errors>>
  /\ UNCHANGED <<assetVars, clockCfg, frameVars, r_recv_log, reply_log, recv_log>>

\* StageDiscriminants::Update, the wait half of send_and_wait: the reply is
\* received, or the peer is gone with nothing left to receive
UpdateWait ==
  /\ dpc = "UpdateWait"
  /\ \/ /\ r2g # <<>>
        /\ render_response' = IF StageAfterMailbox(TRUE) = "EndFrame" THEN MailFirst(r2g) ELSE render_response
        /\ r2g' = MailRest(r2g)
        /\ recv_log' = Append(recv_log, MailFirst(r2g))
        /\ Yield(StageAfterMailbox(TRUE))
        /\ exit_cause' = IF StageAfterMailbox(TRUE) = "Exiting" THEN "mailbox" ELSE exit_cause
     \/ /\ r2g = <<>>
        /\ RenderEndpointDropped
        /\ Yield(StageAfterMailbox(FALSE))
        /\ exit_cause' = IF StageAfterMailbox(FALSE) = "Exiting" THEN "mailbox" ELSE exit_cause
        /\ UNCHANGED <<render_response, r2g, recv_log>>
  /\ UNCHANGED <<current_message, none_returns, joined, thread_runs, frames>>
  /\ UNCHANGED <<timeVars, barrierVars, g2r, rpc, countVars>>
  /\ UNCHANGED <<assetVars, clockCfg, frameVars, g_sent_log, r_recv_log, reply_log>>

\* the mutant of the Exiting arm that unwraps the result of send(Exit): a
\* dropped peer aborts the driver
ExitingSendUnwrap ==
  /\ dpc = "idle"
  /\ current_stage = "Exiting"
  /\ exit_sends' = exit_sends + 1
  /\ g2r' = IF RenderEndpointDropped THEN g2r ELSE MailSend(g2r, ExitMsg)
  /\ g_sent_log' = IF RenderEndpointDropped THEN g_sent_log ELSE Append(g_sent_log, ExitMsg)
  /\ dpc' = IF RenderEndpointDropped THEN "aborted" ELSE "ExitingArrive"
  /\ UNCHANGED <<current_stage, current_message, render_response, yielded, nyield,
                 none_returns, joined, thread_runs, frames, fixed_yields, exit_cause>>
  /\ UNCHANGED <<timeVars, barrierVars, r2g, rpc>>
  /\ UNCHANGED <<d_barrier_calls, r_barrier_calls, renderdata_sends, replies_sent,
                 last_reply, submit_errors>>
  /\ UNCHANGED <<assetVars, clockCfg, frameVars, r_recv_log, reply_log, recv_log>>

\* StageDiscriminants::Exiting: let _ = self.game_mailbox.send(Exit).log_error()
ExitingSend ==
  /\ dpc = "idle"
  /\ current_stage = "Exiting"
  /\ exit_sends' = exit_sends + 1
  /\ g2r' = IF RenderEndpointDropped THEN g2r ELSE MailSend(g2r, ExitMsg)
  /\ g_sent_log' = IF RenderEndpointDropped THEN g_sent_log ELSE Append(g_sent_log, ExitMsg)
  /\ dpc' = "ExitingArrive"
  /\ UNCHANGED <<current_stage, current_message, render_response, yielded, nyield,
                 none_returns, joined, thread_runs, frames, fixed_yields, exit_cause>>
  /\ UNCHANGED <<timeVars, barrierVars, r2g, rpc>>
  /\ UNCHANGED <<d_barrier_calls, r_barrier_calls, renderdata_sends, replies_sent,
                 last_reply, submit_errors>>
  /\ UNCHANGED <<assetVars, clockCfg, frameVars, r_recv_log, reply_log, recv_log>>

\* the mutant of the Exiting arm that leaves out self.sync_barrier.wait()
ExitingNoBarrier ==
  /\ dpc = "ExitingArrive"
  /\ d_gen' = b_gen - 1
  /\ dpc' = "ExitingWait"
  /\ UNCHANGED <<current_stage, current_message, render_response, yielded, nyield,
                 none_returns, joined, thread_runs, frames, fixed_yields, exit_cause>>
  /\ UNCHANGED <<timeVars, mailVars, rpc, r_gen, b_count, b_gen, countVars>>
  /\ UNCHANGED <<assetVars, clockCfg, logVars, frameVars>>

\* StageDiscriminants::Exiting: the arrival in self.sync_barrier.wait()
ExitingArrive ==
  /\ dpc = "ExitingArrive"
  /\ d_gen' = b_gen
  /\ b_count' = BarrierCountAfterArrive
  /\ b_gen' = BarrierGenAfterArrive
  /\ d_barrier_calls' = d_barrier_calls + 1
  /\ dpc' = "ExitingWait"
  /\ UNCHANGED <<current_stage, current_message, render_response, yielded, nyield,
                 none_returns, joined, thread_runs, frames, fixed_yields, exit_cause>>
  /\ UNCHANGED <<timeVars, mailVars, rpc, r_gen>>
  /\ UNCHANGED <<r_barrier_calls, exit_sends, renderdata_sends, replies_sent,
                 last_reply, submit_errors>>
  /\ UNCHANGED <<assetVars, clockCfg, logVars, frameVars>>

\* StageDiscriminants::Exiting: the barrier has opened and render_thread.join()
\* has returned; Stage::ExitLoop is the new state and is returned as Some(..).
\* join unwraps the result of the thread: a panicked thread aborts the driver.
ExitingJoin ==
  /\ dpc = "ExitingWait"
  /\ DriverReleased
  /\ RenderTerminated
  /\ joined' = TRUE
  /\ IF rpc = "done"
       THEN Yield(StageAfterExiting)
       ELSE /\ dpc' = "aborted"
            /\ UNCHANGED <<current_stage, yielded, nyield, fixed_yields>>
  /\ UNCHANGED <<current_message, render_response, none_returns, thread_runs, frames, exit_cause>>
  /\ UNCHANGED <<timeVars, barrierVars, mailVars, countVars, rpc>>
  /\ UNCHANGED <<assetVars, clockCfg, logVars, frameVars>>

\* StageDiscriminants::ExitLoop: return None
ExitLoopArmRestarts ==
  /\ dpc = "idle"
  /\ current_stage = "ExitLoop"
  /\ none_returns < MaxNone
  /\ none_returns' = none_returns + 1
  /\ yielded' = "None"
  /\ current_stage' = "Initialize"
  /\ UNCHANGED <<current_message, render_response, nyield, dpc, joined,
                 thread_runs, frames, fixed_yields, exit_cause>>
  /\ UNCHANGED <<timeVars, barrierVars, mailVars, countVars, rpc>>
  /\ UNCHANGED <<assetVars, clockCfg, logVars, frameVars>>

ExitLoopArm ==
  /\ dpc = "idle"
  /\ current_stage = "ExitLoop"
  /\ none_returns < MaxNone
  /\ none_returns' = none_returns + 1
  /\ yielded' = "None"
  /\ UNCHANGED <<current_stage, current_message, render_response, nyield, dpc, joined,
                 thread_runs, frames, fixed_yields, exit_cause>>
  /\ UNCHANGED <<timeVars, barrierVars, mailVars, countVars, rpc>>
  /\ UNCHANGED <<assetVars, clockCfg, logVars, frameVars>>

(* ---------------- RenderLoop::run (section 4.5) ---------------- *)

\* (1) the arrival in sync_barrier.wait()
RenderArrive ==
  /\ rpc = "arrive"
  /\ r_gen' = b_gen
  /\ b_count' = BarrierCountAfterArrive
  /\ b_gen' = BarrierGenAfterArrive
  /\ r_barrier_calls' = r_barrier_calls + 1
  /\ rpc' = "wait"
  /\ UNCHANGED <<driverVars, timeVars, mailVars, d_gen>>
  /\ UNCHANGED <<d_barrier_calls, exit_sends, renderdata_sends, replies_sent,
                 last_reply, submit_errors>>
  /\ UNCHANGED <<assetVars, clockCfg, logVars, frameVars>>

\* (1)-(2) the barrier has opened; the render thread's own clock advances
RenderRelease ==
  /\ rpc = "wait"
  /\ RenderReleased
  /\ rpc' = "recv"
  /\ UNCHANGED <<driverVars, timeVars, barrierVars, mailVars, countVars>>
  /\ UNCHANGED <<assetVars, clockCfg, logVars, frameVars>>

\* (3) block-receive the next message; (4) Exit breaks out of the loop
RenderRecv ==
  /\ rpc = "recv"
  /\ g2r # <<>>
  /\ g2r' = MailRest(g2r)
  /\ r_recv_log' = Append(r_recv_log, MailFirst(g2r))
  /\ rpc' = IF MailFirst(g2r) = ExitMsg THEN "done" ELSE "submit"
  /\ UNCHANGED <<driverVars, timeVars, barrierVars, r2g, countVars>>
  /\ UNCHANGED <<assetVars, clockCfg, frameVars, g_sent_log, reply_log, recv_log>>

\* (4) RenderData: submit the payload and send back a completion reply; a
\* failed submit is logged and the loop goes on
RenderSubmit ==
  /\ rpc = "submit"
  /\ \E outcome \in RenderResponses :
       /\ r2g' = MailSend(r2g, outcome)
       /\ reply_log' = Append(reply_log, outcome)
       /\ last_reply' = outcome
       /\ submit_errors' = IF outcome = "err" THEN submit_errors + 1 ELSE submit_errors
  /\ replies_sent' = replies_sent + 1
  /\ rpc' = "arrive"
  /\ UNCHANGED <<driverVars, timeVars, barrierVars, g2r>>
  /\ UNCHANGED <<d_barrier_calls, r_barrier_calls, exit_sends, renderdata_sends>>
  /\ UNCHANGED <<assetVars, clockCfg, frameVars, g_sent_log, r_recv_log, recv_log>>

\* section 7 (b): the render thread panics inside the renderer; the thread
\* unwinds and its mailbox endpoint is dropped
RenderPanic ==
  /\ rpc = "submit"
  /\ rpc' = "panicked"
  /\ UNCHANGED <<driverVars, timeVars, barrierVars, mailVars, countVars>>
  /\ UNCHANGED <<assetVars, clockCfg, logVars, frameVars>>

(* ---------------- the system ---------------- *)

DriverStep ==
  \/ InitializeArm
  \/ StartArm
  \/ BeginFrameArrive
  \/ BeginFrameRelease
  \/ EarlyUpdateArm
  \/ FixedUpdateArm
  \/ UpdateSend
  \/ UpdateWait
  \/ EndFrameArm
  \/ ExitingSend
  \/ ExitingArrive
  \/ ExitingJoin
  \/ ExitLoopArm

RenderStep ==
  \/ RenderArrive
  \/ RenderRelease
  \/ RenderRecv
  \/ RenderSubmit

Next ==
  \/ InitializeArm
  \/ StartArm
  \/ BeginFrameArrive
  \/ BeginFrameRelease
  \/ EarlyUpdateArm
  \/ FixedUpdateArm
  \/ UpdateSend
  \/ UpdateWait
  \/ EndFrameArm
  \/ ExitingSend
  \/ ExitingArrive
  \/ ExitingJoin
  \/ ExitLoopArm
  \/ RenderArrive
  \/ RenderRelease
  \/ RenderRecv
  \/ RenderSubmit
  \/ RenderPanic

Spec == Init /\ [][Next]_vars

\* the engine with the clock parameters drawn from both settings
ClockSpec == ClockInit /\ [][Next]_vars

\* the caller's for-loop keeps calling next, and the operating system keeps
\* scheduling the render thread; a panic is never owed
FairSpec == Spec /\ WF_vars(DriverStep) /\ WF_vars(RenderStep)

(* ---------------- the mailbox pair on its own ---------------- *)

\* the two endpoints of Mailbox::new_entangled_pair, used freely: either side
\* sends and receives in any order, and the render side may be dropped
restOfEngine == <<driverVars, timeVars, barrierVars, countVars, clockCfg, frameVars, assetVars>>

\* game endpoint: send(msg); the send fails, with nothing queued, once the
\* peer is dropped
MailGameSend ==
  /\ Len(g_sent_log) < MaxMsgs
  /\ \E m \in {RenderDataMsg, ExitMsg} :
       IF RenderEndpointDropped
         THEN UNCHANGED <<g2r, g_sent_log>>
         ELSE /\ g2r' = MailSend(g2r, m)
              /\ g_sent_log' = Append(g_sent_log, m)
  /\ UNCHANGED <<restOfEngine, rpc, r2g, r_recv_log, reply_log, recv_log>>

\* render endpoint: receive the next message
MailRenderRecv ==
  /\ ~RenderEndpointDropped
  /\ g2r # <<>>
  /\ g2r' = MailRest(g2r)
  /\ r_recv_log' = Append(r_recv_log, MailFirst(g2r))
  /\ UNCHANGED <<restOfEngine, rpc, r2g, g_sent_log, reply_log, recv_log>>

\* render endpoint: send(reply)
MailRenderSend ==
  /\ ~RenderEndpointDropped
  /\ Len(reply_log) < MaxMsgs
  /\ \E r \in RenderResponses :
       /\ r2g' = MailSend(r2g, r)
       /\ reply_log' = Append(reply_log, r)
  /\ UNCHANGED <<restOfEngine, rpc, g2r, g_sent_log, r_recv_log, recv_log>>

\* game endpoint: receive the next reply
MailGameRecv ==
  /\ r2g # <<>>
  /\ r2g' = MailRest(r2g)
  /\ recv_log' = Append(recv_log, MailFirst(r2g))
  /\ UNCHANGED <<restOfEngine, rpc, g2r, g_sent_log, r_recv_log, reply_log>>

\* the render endpoint is dropped
MailRenderDrop ==
  /\ ~RenderEndpointDropped
  /\ rpc' = "done"
  /\ UNCHANGED <<restOfEngine, mailVars, logVars>>

MailNext ==
  \/ MailGameSend
  \/ MailRenderRecv
  \/ MailRenderSend
  \/ MailGameRecv
  \/ MailRenderDrop

MailSpec == Init /\ [][MailNext]_vars

(* ---------------- ShaderStore (vulkan/shader/storage.rs) ---------------- *)

engineVars == <<driverVars, timeVars, barrierVars, mailVars, countVars, clockCfg,
                logVars, frameVars, rpc>>

\* shader_map.get(&path)
MapHas(map, path) == path \in DOMAIN map

\* shader_map.insert(path, shader): the entry of path is set, the others kept
MapInsert(map, path, handle) ==
  [q \in (DOMAIN map) \cup {path} |-> IF q = path THEN handle ELSE map[q]]

\* what a get leaves behind for the properties: the calls of Shader::new and
\* the handle the first get of a key returned
NoteGet(kind, path, handle, built) ==
  /\ shader_constructions' =
       IF built THEN [shader_constructions EXCEPT ![kind, path] = @ + 1]
       ELSE shader_constructions
  /\ shader_first' =
       IF shader_first[kind, path] = 0 THEN [shader_first EXCEPT ![kind, path] = handle]
       ELSE shader_first
  /\ shader_last' = [kind |-> kind, path |-> path, handle |-> handle]

\* get_shader without the lookup: a shader is built and inserted on every call
GetShaderAlwaysBuilds(field, kind, path) ==
  /\ shader_handles < MaxShaders
  /\ shader_handles' = shader_handles + 1
  /\ shader_store' = [shader_store EXCEPT
                        ![field] = MapInsert(@, path, shader_handles + 1)]
  /\ NoteGet(kind, path, shader_handles + 1, TRUE)
  /\ UNCHANGED <<engineVars, buildVars>>

\* get_shader(device, shader_map, path): the stored handle on a hit; on a miss
\* a new shader behind a new handle, inserted under path and returned
GetShader(field, kind, path) ==
  /\ IF MapHas(shader_store[field], path)
     THEN /\ NoteGet(kind, path, shader_store[field][path], FALSE)
          /\ UNCHANGED <<shader_store, shader_handles>>
     ELSE /\ shader_handles < MaxShaders
          /\ shader_handles' = shader_handles + 1
          /\ shader_store' = [shader_store EXCEPT
                                ![field] = MapInsert(@, path, shader_handles + 1)]
          /\ NoteGet(kind, path, shader_handles + 1, TRUE)
  /\ UNCHANGED <<engineVars, buildVars>>

GetVertex == \E p \in Paths : GetShader("vertex_shaders", "Vertex", p)
GetFragment == \E p \in Paths : GetShader("fragment_shaders", "Fragment", p)
GetCompute == \E p \in Paths : GetShader("compute_shaders", "Compute", p)
GetGeometry == \E p \in Paths : GetShader("geometry_shaders", "Geometry", p)
GetMesh == \E p \in Paths : GetShader("mesh_shaders", "Mesh", p)

StoreNext ==
  \/ GetVertex
  \/ GetFragment
  \/ GetCompute
  \/ GetGeometry
  \/ GetMesh

StoreSpec == Init /\ [][StoreNext]_vars

(* ---------------- Shader::new, build_shader_module (foxy_vulkan shader.rs) ---------------- *)

\* the attempt that follows a failed one, with Second left out
AttemptAfterSkipsSecond(attempt) == "Last"

\* Err(err) => match attempt: First retries as Second, Second as Last
AttemptAfter(attempt) == IF attempt = "First" THEN "Second" ELSE "Last"

\* the source of the retry: Source::new(path) again after First,
\* Source::read_default() after Second
SourceAfter(attempt) == IF attempt = "First" THEN "reread" ELSE "default"

\* Shader::new: Source::new(path), then build_shader_module(.., First)
ShaderNew ==
  /\ build_attempt = "none"
  /\ build_result \in {"none", "Ok"}
  /\ modules_created < MaxModules
  /\ \E k \in StageKinds, p \in Paths :
        /\ build_kind' = k
        /\ build_path' = p
  /\ build_attempt' = "First"
  /\ build_source' = "given"
  /\ build_trace' = <<>>
  /\ build_result' = "none"
  /\ build_module' = "none"
  /\ UNCHANGED <<modules_created, engineVars, storeVars>>

\* create_shader_module returns Ok(module): the call returns it, and so does
\* every enclosing call through `?`
CreateModuleOk ==
  /\ build_attempt \in BuildAttempts
  /\ build_trace' = Append(build_trace,
                           [attempt |-> build_attempt, source |-> build_source, ok |-> TRUE])
  /\ build_result' = "Ok"
  /\ build_module' = build_source
  /\ modules_created' = modules_created + 1
  /\ build_attempt' = "none"
  /\ build_source' = "none"
  /\ UNCHANGED <<build_kind, build_path, engineVars, storeVars>>

\* create_shader_module returns Err: retry with the next attempt and its
\* source, or, on the Last attempt, return Err
CreateModuleErr ==
  /\ build_attempt \in BuildAttempts
  /\ build_trace' = Append(build_trace,
                           [attempt |-> build_attempt, source |-> build_source, ok |-> FALSE])
  /\ IF build_attempt = "Last"
     THEN /\ build_result' = "Err"
          /\ build_attempt' = "none"
          /\ build_source' = "none"
     ELSE /\ build_attempt' = AttemptAfter(build_attempt)
          /\ build_source' = SourceAfter(build_attempt)
          /\ UNCHANGED build_result
  /\ UNCHANGED <<build_kind, build_path, build_module, modules_created, engineVars, storeVars>>

\* Shader::new: .expect("fallbacks should never fail to compile") on Err
ShaderNewPanic ==
  /\ build_attempt = "none"
  /\ build_result = "Err"
  /\ build_result' = "panicked"
  /\ UNCHANGED <<build_kind, build_path, build_attempt, build_source, build_trace,
                 build_module, modules_created, engineVars, storeVars>>

BuildNext ==
  \/ ShaderNew
  \/ CreateModuleOk
  \/ CreateModuleErr
  \/ ShaderNewPanic

BuildSpec == Init /\ [][BuildNext]_vars

\* the calls into the device return, and the code between them runs
FairBuildSpec == BuildSpec /\ WF_vars(CreateModuleOk \/ CreateModuleErr)

TypeOK ==
  /\ current_stage \in Stages
  /\ yielded \in Stages \cup {"nothing", "None"}
  /\ current_message \in WindowMessages \cup {"None"}
  /\ render_response \in RenderResponses \cup {"none"}
  /\ dpc \in {"idle", "BeginFrameWait", "UpdateWait", "ExitingArrive", "ExitingWait", "aborted"}
  /\ rpc \in {"unstarted", "arrive", "wait", "recv", "submit", "done", "panicked"}
  /\ b_count \in 0..1
  /\ lag_time \in 0..(MaxFrames * MaxDelta)
  /\ tick_count \in 0..bail_threshold
  /\ Len(g2r) <= 1
  /\ Len(r2g) <= 1

(* ======================= properties ======================= *)

FramePhases == {"BeginFrame", "EarlyUpdate", "FixedUpdate", "Update", "EndFrame"}

CyclicOrder == {<<"BeginFrame", "EarlyUpdate">>, <<"EarlyUpdate", "FixedUpdate">>,
                <<"EarlyUpdate", "Update">>, <<"FixedUpdate", "FixedUpdate">>,
                <<"FixedUpdate", "Update">>, <<"Update", "EndFrame">>,
                <<"EndFrame", "BeginFrame">>}

\* the iterator has returned None
SequenceEnded == yielded = "None"

\* C1: every item yielded after a frame phase is its successor in the cycle
\* BeginFrame, EarlyUpdate, FixedUpdate*, Update, EndFrame, BeginFrame, ...;
\* only Update and EndFrame can be followed by Exiting instead (the exit
\* conditions), and only FixedUpdate can follow itself.
C1_PhaseOrder ==
  [][(nyield' # nyield /\ yielded \in FramePhases) =>
       \/ <<yielded, yielded'>> \in CyclicOrder
       \/ (yielded \in {"Update", "EndFrame"} /\ yielded' = "Exiting")]_vars

\* a second cycle has begun after a frame that ran a fixed update
C1_Witness == frames = 2 /\ yielded = "BeginFrame" /\ fixed_yields >= 1

\* C2 (as stated): the driver and the render thread have made the same number
\* of barrier rendezvous calls at every point of the engine's lifetime.
C2_CountsAlwaysEqual == d_barrier_calls = r_barrier_calls

\* C2 (amended): the two counts are equal whenever no party is waiting at the
\* barrier, differ by exactly one while one party waits for the other, and are
\* equal when the sequence ends.
C2_CountsInStep ==
  /\ b_count = 0 => d_barrier_calls = r_barrier_calls
  /\ b_count # 0 => (d_barrier_calls - r_barrier_calls) \in {-1, 1}
  /\ current_stage = "ExitLoop" => d_barrier_calls = r_barrier_calls

\* the sequence has ended after at least one whole frame
C2_Witness == current_stage = "ExitLoop" /\ d_barrier_calls >= 2 /\ r_barrier_calls >= 2

\* C3: no advance yields ExitLoop to the caller.
C3_ExitLoopNeverYielded == yielded # "ExitLoop"

\* C4: when the window source reports no event in Start or EndFrame, the next
\* advance after Exiting reaches ExitLoop, the render thread has terminated
\* and has been joined by then, under every fair interleaving.
C4_WindowCloseShutsDown ==
  /\ (exit_cause = "window" /\ yielded = "Exiting")
       ~> (current_stage = "ExitLoop" /\ joined /\ rpc = "done")
  /\ [][(current_stage = "Exiting" /\ exit_cause = "window" /\ nyield' # nyield) =>
          (current_stage' = "ExitLoop" /\ joined' /\ rpc' = "done")]_vars
  /\ [](SequenceEnded => joined /\ rpc = "done")

\* the window closed in EndFrame and the shutdown has completed
C4_Witness ==
  current_stage = "ExitLoop" /\ exit_cause = "window" /\ joined /\ frames >= 1

\* C5: a render thread that is gone while the driver is in Update leads to
\* Exiting and from there to ExitLoop; the driver never blocks forever.
C5_DisconnectShutsDown == (exit_cause = "mailbox") ~> (current_stage = "ExitLoop")

\* C6: the advance out of Update yields Exiting, without an error, exactly when
\* the send-and-wait failed (peer gone, no reply to receive); otherwise it
\* yields EndFrame carrying the reply the render thread sent.
C6_MailboxFailureExits ==
  [][(current_stage = "Update" /\ nyield' # nyield) =>
       IF RenderEndpointDropped /\ r2g = <<>>
         THEN yielded' = "Exiting" /\ dpc' = "idle" /\ render_response' = render_response
         ELSE yielded' = "EndFrame" /\ render_response' = last_reply]_vars

\* the send-and-wait failed and Exiting was yielded
C6_Witness == yielded = "Exiting" /\ exit_cause = "mailbox" /\ rpc = "panicked"

\* C7: Exit is sent at most once and only by the advance that leaves Exiting;
\* the driver's next action after the send is one barrier rendezvous, no
\* second rendezvous and no join come before it, and no RenderData request is
\* sent after Exit.
C7_ExitOnceThenRendezvous ==
  /\ [](exit_sends <= 1)
  /\ [][exit_sends' # exit_sends =>
          (current_stage = "Exiting" /\ dpc = "idle" /\ dpc' = "ExitingArrive")]_vars
  /\ [][(dpc = "ExitingArrive" /\ dpc' # dpc) =>
          (d_barrier_calls' = d_barrier_calls + 1 /\ ~joined')]_vars
  /\ [][dpc = "ExitingWait" => d_barrier_calls' = d_barrier_calls]_vars
  /\ [][exit_sends >= 1 => renderdata_sends' = renderdata_sends]_vars

\* Exit was sent after a frame and the driver has made the final rendezvous
C7_Witness == exit_sends = 1 /\ dpc = "ExitingWait" /\ renderdata_sends >= 1

\* C8: as long as the renderer answers (no panic) and the sequence has not
\* ended, the driver or the render thread can take a step; when the sequence
\* has ended every message sent was received.
C8_NoDeadlockNoLoss ==
  /\ (rpc # "panicked" /\ ~SequenceEnded) => (ENABLED DriverStep \/ ENABLED RenderStep)
  /\ (rpc # "panicked" /\ SequenceEnded) =>
       (g2r = <<>> /\ r2g = <<>> /\ replies_sent = renderdata_sends)

\* the sequence has ended after two whole frames
C8_Witness == SequenceEnded /\ frames >= 2 /\ replies_sent >= 2

\* RenderData requests still in the game -> render channel
RequestsInFlight == Len(SelectSeq(g2r, LAMBDA m : m = RenderDataMsg))

\* C9: whenever the render thread is at the barrier, every RenderData request
\* it has received has been answered exactly once; it never answers more than
\* it received; and a driver waiting in send_and_wait is never left with a
\* live render thread that has neither replied nor is past the barrier on its
\* way to reply.
C9_AnswerBeforeRendezvous ==
  /\ rpc \in {"arrive", "wait"} => replies_sent = renderdata_sends - RequestsInFlight
  /\ rpc = "submit" => replies_sent + 1 = renderdata_sends - RequestsInFlight
  /\ replies_sent <= renderdata_sends - RequestsInFlight
  /\ (dpc = "UpdateWait" /\ rpc # "panicked") =>
       (r2g # <<>> \/ rpc \in {"recv", "submit"} \/ (rpc = "wait" /\ RenderReleased))

\* the render thread is back at the barrier after answering its second request
C9_Witness == rpc = "wait" /\ replies_sent = 2 /\ r_barrier_calls = 3

\* C10: a failed submit leaves the render thread in its loop with the reply
\* sent, and the advance out of Update that receives this reply yields
\* EndFrame, so the frame cycle goes on.
C10_SubmitErrorKeepsFrames ==
  /\ [][submit_errors' # submit_errors =>
          (rpc' = "arrive" /\ r2g' = Append(r2g, "err"))]_vars
  /\ [][(current_stage = "Update" /\ nyield' # nyield /\ r2g # <<>> /\ Head(r2g) = "err") =>
          (yielded' = "EndFrame" /\ render_response' = "err")]_vars
  /\ [](submit_errors > 0 /\ rpc = "done" => exit_sends = 1)

\* a frame completed normally after a frame whose submit failed
C10_Witness ==
  submit_errors = 1 /\ frames = 2 /\ yielded = "EndFrame" /\ render_response = "ok"

\* p is an initial segment of q
IsPrefix(p, q) == Len(p) <= Len(q) /\ SubSeq(q, 1, Len(p)) = p

\* C11: with a render thread that answers every request (no panic), whenever
\* the driver is outside send_and_wait it has received exactly as many replies
\* as it has made calls, the replies it received are the replies the render
\* thread produced, in the order of the requests, and none is left in the
\* channel; inside a call at most the one reply of that call is outstanding.
C11_NoReplyLost ==
  rpc # "panicked" =>
    /\ IsPrefix(recv_log, reply_log)
    /\ reply_log = recv_log \o r2g
    /\ Len(reply_log) <= renderdata_sends
    /\ dpc # "UpdateWait" =>
         (Len(recv_log) = renderdata_sends /\ recv_log = reply_log /\ r2g = <<>>)
    /\ dpc = "UpdateWait" => Len(recv_log) = renderdata_sends - 1

\* two calls have returned, with different replies, in the order produced
C11_Witness ==
  /\ rpc # "panicked"
  /\ dpc = "idle"
  /\ renderdata_sends = 2
  /\ recv_log = <<"err", "ok">>
  /\ reply_log = <<"err", "ok">>

\* C12: in both directions what one endpoint has received is an initial
\* segment of what the other has sent; while the render endpoint is alive
\* everything sent to it and not yet received is in flight, receivable in send
\* order, and the same holds for the replies sent to the game endpoint.
C12_FifoNoLoss ==
  /\ IsPrefix(r_recv_log, g_sent_log)
  /\ IsPrefix(recv_log, reply_log)
  /\ ~RenderEndpointDropped => g_sent_log = r_recv_log \o g2r
  /\ reply_log = recv_log \o r2g

\* both directions have delivered two different messages in order while a
\* third is still in flight
C12_Witness ==
  /\ ~RenderEndpointDropped
  /\ r_recv_log = <<RenderDataMsg, ExitMsg>>
  /\ Len(g2r) = 1
  /\ recv_log = <<"err", "ok">>
  /\ Len(r2g) = 1

\* C13: against a dropped render endpoint, send(Exit) does not block and its
\* error is ignored (nothing is queued and the driver goes on to its next
\* statement), and send_and_wait does not block: with no reply to receive it
\* returns the error, which yields Exiting.
C13_DroppedPeerFailsAsValue ==
  /\ [][(exit_sends' # exit_sends /\ RenderEndpointDropped) =>
          (g2r' = g2r /\ dpc' = "ExitingArrive" /\ current_stage' = "Exiting")]_vars
  /\ []((current_stage = "Exiting" /\ dpc = "idle") => ENABLED ExitingSend)
  /\ []((dpc = "UpdateWait" /\ RenderEndpointDropped) => ENABLED UpdateWait)
  /\ [][(dpc = "UpdateWait" /\ dpc' # dpc /\ RenderEndpointDropped /\ r2g = <<>>) =>
          (yielded' = "Exiting" /\ dpc' = "idle" /\ recv_log' = recv_log)]_vars

\* the send-and-wait has failed against the dropped peer, and the send of
\* Exit has failed too and has let the driver go on
C13_Witness ==
  /\ rpc = "panicked"
  /\ exit_cause = "mailbox"
  /\ exit_sends = 1
  /\ dpc = "ExitingArrive"
  /\ g_sent_log = <<RenderDataMsg>>

\* C16: when Update is yielded in a frame that started with an empty
\* accumulator and advanced the clock by d, the number of FixedUpdate items
\* yielded in the frame is the number of whole steps in d, provided that
\* number does not exceed the tick cap; with the step of 1/128 s, the cap of
\* 1024 and d = 0.031 s it is 3.
C16_TicksAreWholeSteps ==
  (yielded = "Update" /\ frame_lag0 = 0) =>
    /\ (frame_delta \div tick_time <= bail_threshold) =>
         frame_fixed = frame_delta \div tick_time
    /\ (tick_time = ScenarioTickTime /\ bail_threshold = ScenarioBailThreshold
          /\ frame_delta = ScenarioDelta) => frame_fixed = 3

\* the scenario: 1/128 s steps, cap 1024, 0.031 s elapsed, three fixed
\* updates yielded and then Update
C16_Witness ==
  /\ yielded = "Update"
  /\ frame_lag0 = 0
  /\ tick_time = ScenarioTickTime
  /\ bail_threshold = ScenarioBailThreshold
  /\ frame_delta = ScenarioDelta
  /\ frame_fixed = 3
  /\ lag_time = ScenarioDelta - 3 * ScenarioTickTime

\* C17: the FixedUpdate items yielded in one frame never outnumber the tick
\* cap, whatever time has accumulated, and once the cap is reached the next
\* advance yields Update.
C17_CatchUpBounded ==
  /\ [](frame_fixed <= bail_threshold)
  /\ [][(current_stage \in {"EarlyUpdate", "FixedUpdate"} /\ frame_fixed = bail_threshold
           /\ nyield' # nyield) => yielded' = "Update"]_vars

\* the cap has cut the catch-up short: Update was yielded with whole steps
\* still accumulated
C17_Witness ==
  yielded = "Update" /\ frame_fixed = bail_threshold /\ lag_time >= tick_time

\* C18 (as stated): every advance that yields Exiting is an advance out of
\* Start or EndFrame on which next_window_message returned None.
C18_ExitingOnlyFromWindow ==
  [][(nyield' # nyield /\ yielded' = "Exiting") =>
       (current_stage \in {"Start", "EndFrame"} /\ frames' = frames)]_vars

\* C18 (amended): every advance that yields Exiting is either an advance out
\* of Start or EndFrame on which next_window_message returned None, or an
\* advance out of Update whose send-and-wait failed because the render
\* endpoint was gone with no reply to receive; nothing else yields Exiting.
C18_ExitingFromWindowOrMailbox ==
  [][(nyield' # nyield /\ yielded' = "Exiting") =>
       \/ (current_stage \in {"Start", "EndFrame"} /\ frames' = frames
             /\ current_message' = current_message /\ exit_cause' = "window")
       \/ (current_stage = "Update" /\ RenderEndpointDropped /\ r2g = <<>>
             /\ exit_cause' = "mailbox")]_vars

\* Exiting has been yielded by the Update arm in the second frame
C18_Witness ==
  /\ current_stage = "Exiting"
  /\ dpc = "idle"
  /\ exit_cause = "mailbox"
  /\ frames = 2
  /\ renderdata_sends = 2

\* RenderData requests the render thread has received
RenderDataReceived == Len(SelectSeq(r_recv_log, LAMBDA m : m = RenderDataMsg))

\* the driver is inside the frame, between its rendezvous and the reply
DriverInFrame ==
  \/ (dpc = "idle" /\ yielded \in {"EarlyUpdate", "FixedUpdate", "Update"})
  \/ dpc = "UpdateWait"

\* C19: in frame N (N events delivered) the driver has made N rendezvous and
\* N clock advances once EarlyUpdate is yielded and N requests once EndFrame
\* is yielded, one of each per frame; every fixed tick and every request comes
\* after the rendezvous and the clock advance of its frame; the render thread
\* receives at most one RenderData per rendezvous; and a thread at its frame
\* work has seen the other arrive at the barrier for that frame.
C19_FrameHandshake ==
  /\ []((dpc = "idle" /\ yielded = "BeginFrame") =>
          (d_barrier_calls = frames - 1 /\ time_updates = frames - 1
             /\ renderdata_sends = frames - 1))
  /\ []((dpc = "idle" /\ yielded \in {"EarlyUpdate", "FixedUpdate", "Update"}) =>
          (d_barrier_calls = frames /\ time_updates = frames
             /\ renderdata_sends = frames - 1))
  /\ [](yielded = "EndFrame" =>
          (d_barrier_calls = frames /\ time_updates = frames /\ renderdata_sends = frames))
  /\ [][(fixed_yields' # fixed_yields \/ renderdata_sends' # renderdata_sends) =>
          (d_barrier_calls = frames /\ time_updates = frames /\ b_gen >= frames)]_vars
  /\ [](RenderDataReceived <= r_barrier_calls /\ r_barrier_calls <= RenderDataReceived + 1)
  /\ [](rpc = "arrive" => RenderDataReceived = r_barrier_calls)
  /\ [](rpc \in {"recv", "submit"} => d_barrier_calls >= r_barrier_calls)
  /\ [](DriverInFrame => r_barrier_calls >= d_barrier_calls)

\* second frame: both threads are past the barrier, a fixed update has run,
\* the request is with the render thread
C19_Witness ==
  /\ frames = 2
  /\ dpc = "UpdateWait"
  /\ rpc = "submit"
  /\ frame_fixed >= 1
  /\ d_barrier_calls = 2
  /\ r_barrier_calls = 2

\* C20: run is called once, by the advance from Initialize that yields Start,
\* and never again; join returns at most once, in the advance out of Exiting,
\* after the start; the worker thread exists exactly from that one start on.
C20_RunOnceJoinOnce ==
  /\ [](thread_runs <= 1)
  /\ []((thread_runs = 1) <=> (current_stage # "Initialize"))
  /\ []((rpc # "unstarted") <=> (thread_runs = 1))
  /\ [][thread_runs' # thread_runs =>
          (current_stage = "Initialize" /\ yielded' = "Start" /\ ~joined)]_vars
  /\ [][joined' # joined =>
          (~joined /\ current_stage = "Exiting" /\ dpc = "ExitingWait"
             /\ thread_runs = 1 /\ RenderTerminated)]_vars
  /\ [](joined => (dpc # "ExitingWait" /\ current_stage \in {"Exiting", "ExitLoop"}))
  /\ [][joined => (thread_runs' = thread_runs /\ rpc' = rpc)]_vars

\* the sequence has ended: the task was started once and joined
C20_Witness ==
  /\ yielded = "None"
  /\ thread_runs = 1
  /\ joined
  /\ rpc = "done"
  /\ frames >= 1

C22_MessageWrittenOnlyAtBeginFrame ==
  /\ [][current_message' # current_message =>
          (/\ current_stage \in {"Start", "EndFrame"}
           /\ nyield' = nyield + 1
           /\ yielded' = "BeginFrame"
           /\ current_message' \in WindowMessages)]_vars
  /\ [][(nyield' # nyield /\ yielded' # "BeginFrame") =>
          current_message' = current_message]_vars
  /\ [](yielded \in FramePhases => current_message \in WindowMessages)

\* the window closes after two frames that stored different events: the
\* advance that yields Exiting keeps the second one
C22_Witness ==
  /\ yielded = "Exiting" /\ exit_cause = "window"
  /\ frames = 2 /\ current_message = "m2"

\* C23: once next has returned None, every further call returns None again
\* and changes nothing: the stage stays ExitLoop, the driver makes no barrier
\* rendezvous, sends nothing through the mailbox, and neither starts nor
\* joins the render thread.
C23_EndIsStable ==
  /\ [](none_returns >= 1 => (yielded = "None" /\ current_stage = "ExitLoop" /\ dpc = "idle"))
  /\ [][none_returns >= 1 =>
          (/\ yielded' = "None"
           /\ current_stage' = "ExitLoop"
           /\ nyield' = nyield
           /\ d_barrier_calls' = d_barrier_calls
           /\ d_gen' = d_gen
           /\ exit_sends' = exit_sends
           /\ renderdata_sends' = renderdata_sends
           /\ g2r' = g2r
           /\ g_sent_log' = g_sent_log
           /\ thread_runs' = thread_runs
           /\ joined' = joined)]_vars

\* next has returned None twice
C23_Witness == none_returns = 2 /\ yielded = "None" /\ current_stage = "ExitLoop"

\* C24: the first item yielded is Start, and the render thread's task is
\* started by the advance that yields it; Initialize is the stage before the
\* first advance and is never yielded; current_stage is the discriminant of
\* the item yielded last (ExitLoop once next has returned None).
C24_StartFirstStageTracksYield ==
  /\ [](yielded # "Initialize")
  /\ [](nyield = 0 => (yielded = "nothing" /\ current_stage = "Initialize"
                         /\ thread_runs = 0 /\ rpc = "unstarted"))
  /\ [](nyield >= 1 => (thread_runs = 1 /\ current_stage # "Initialize"))
  /\ [][nyield = 0 /\ nyield' # nyield =>
          (nyield' = 1 /\ yielded' = "Start" /\ thread_runs' = 1 /\ rpc' # "unstarted")]_vars
  /\ [](yielded \in Stages => current_stage = yielded)
  /\ [](yielded = "None" => current_stage = "ExitLoop")

\* the first advance has just yielded Start and the render task runs
C24_Witness ==
  nyield = 1 /\ yielded = "Start" /\ current_stage = "Start" /\ thread_runs = 1 /\ rpc = "arrive"

\* the map of the ShaderStore that holds the shaders of a stage kind
FieldOfKind == [Vertex |-> "vertex_shaders", Fragment |-> "fragment_shaders",
                Compute |-> "compute_shaders", Geometry |-> "geometry_shaders",
                Mesh |-> "mesh_shaders"]

\* C25: the ShaderStore caches per stage kind and path: Shader::new runs at
\* most once per (kind, path); every get returns the handle the first get of
\* that kind and path returned, and that handle is the one stored; a get of
\* one kind changes no map of another kind; and no get removes or replaces an
\* entry.
C25_StoreCachesPerKindAndPath ==
  /\ [](\A k \in StageKinds, p \in Paths :
          /\ shader_constructions[k, p] <= 1
          /\ (shader_constructions[k, p] = 1) = MapHas(shader_store[FieldOfKind[k]], p)
          /\ MapHas(shader_store[FieldOfKind[k]], p) =>
               (/\ shader_first[k, p] # 0
                /\ shader_store[FieldOfKind[k]][p] = shader_first[k, p]))
  /\ [](shader_last.kind # "none" =>
          shader_last.handle = shader_first[shader_last.kind, shader_last.path])
  /\ [][\A f \in StoreFields :
          f # FieldOfKind[shader_last'.kind] => shader_store'[f] = shader_store[f]]_vars
  /\ [][\A f \in StoreFields : \A p \in DOMAIN shader_store[f] :
          MapHas(shader_store'[f], p) /\ shader_store'[f][p] = shader_store[f][p]]_vars

\* a get_vertex served from the cache with the first handle, after later
\* shaders were built, one of them for the same path and another kind
C25_Witness ==
  /\ shader_handles = 3
  /\ shader_last = [kind |-> "Vertex", path |-> "a.hlsl", handle |-> 1]
  /\ MapHas(shader_store["fragment_shaders"], "a.hlsl")
  /\ MapHas(shader_store["vertex_shaders"], "b.hlsl")

\* the order of the retry chain and the source each attempt builds from
AttemptOrder == << [attempt |-> "First", source |-> "given"],
                   [attempt |-> "Second", source |-> "reread"],
                   [attempt |-> "Last", source |-> "default"] >>

\* C26: build_shader_module makes at most three attempts, in the order First
\* (the given source), Second (the source read again from the same path),
\* Last (the default source); it returns the module of the first attempt
\* that succeeds and tries none after it; it returns an error only when all
\* three attempts have failed; and every build that starts, ends.
C26_BoundedRetryChain ==
  /\ [](/\ Len(build_trace) <= Len(AttemptOrder)
        /\ \A i \in 1..Len(build_trace) :
              /\ build_trace[i].attempt = AttemptOrder[i].attempt
              /\ build_trace[i].source = AttemptOrder[i].source
              /\ (i < Len(build_trace) => ~build_trace[i].ok))
  /\ [](build_attempt \in BuildAttempts =>
          (/\ build_result = "none"
           /\ Len(build_trace) < Len(AttemptOrder)
           /\ build_attempt = AttemptOrder[Len(build_trace) + 1].attempt
           /\ build_source = AttemptOrder[Len(build_trace) + 1].source
           /\ \A i \in 1..Len(build_trace) : ~build_trace[i].ok))
  /\ [](build_result = "Ok" =>
          (/\ build_attempt = "none"
           /\ Len(build_trace) >= 1
           /\ build_trace[Len(build_trace)].ok
           /\ build_module = build_trace[Len(build_trace)].source))
  /\ [](build_result \in {"Err", "panicked"} =>
          (/\ build_attempt = "none"
           /\ Len(build_trace) = Len(AttemptOrder)
           /\ \A i \in 1..Len(build_trace) : ~build_trace[i].ok
           /\ build_module = "none"))
  /\ [][(build_result \in {"Ok", "Err", "panicked"}) =>
          (build_trace' = build_trace \/ Len(build_trace') = 0)]_vars
  /\ (build_attempt \in BuildAttempts) ~> (build_attempt = "none" /\ build_result \in {"Ok", "Err"})

\* a build that failed twice and succeeded from the default source
C26_Witness ==
  /\ build_result = "Ok" /\ build_module = "default"
  /\ Len(build_trace) = 3 /\ ~build_trace[1].ok /\ ~build_trace[2].ok /\ build_trace[3].ok

====
